---------------------------- MODULE Spec2Model ----------------------------
(***************************************************************************)
(* A model of the stopwatch crate: src/tsc.rs (time stamp counter,         *)
(* calibration and unit conversion) and src/lib.rs (Stopwatch, TimerSet,   *)
(* the thread-local TIMERSET and its free functions).                      *)
(*                                                                         *)
(* Every u64 of the program is kept at its full width.  TLC's integers are *)
(* 32 bits wide, so a u64 is a sequence of base-1000 digits, most          *)
(* significant first, without leading zeros (0 is << >>), and the          *)
(* arithmetic of the program is defined on these sequences.                *)
(***************************************************************************)
EXTENDS Integers, Sequences, FiniteSets, TLC

(***************************************************************************)
(* Natural numbers of any size, as sequences of base-1000 digits, most     *)
(* significant first: 1_000_000_000 is <<1, 0, 0, 0>> and u64::MAX,        *)
(* 18_446_744_073_709_551_615, is <<18, 446, 744, 73, 709, 551, 615>>.     *)
(***************************************************************************)
Rev(s) == [i \in 1..Len(s) |-> s[Len(s) + 1 - i]]

\* A digit sequence without its leading zeros.
Strip(s) ==
    IF \A i \in 1..Len(s) : s[i] = 0 THEN << >>
    ELSE SubSeq(s, CHOOSE i \in 1..Len(s) :
                       s[i] # 0 /\ \A j \in 1..(i - 1) : s[j] = 0, Len(s))

\* The digit sequence of a number small enough to be a TLC integer.
RECURSIVE Big(_)
Big(n) == IF n = 0 THEN << >> ELSE Big(n \div 1000) \o <<n % 1000>>

\* Order of two digit sequences of the same length.
LexLt(a, b) ==
    \E i \in 1..Len(a) : a[i] < b[i] /\ \A j \in 1..(i - 1) : a[j] = b[j]

BigLt(a, b) == IF Len(a) # Len(b) THEN Len(a) < Len(b) ELSE LexLt(a, b)
BigLe(a, b) == a = b \/ BigLt(a, b)

\* Addition with carry on least-significant-first digits.
RECURSIVE AddC(_, _, _)
AddC(a, b, c) ==
    IF a = << >> /\ b = << >>
    THEN IF c = 0 THEN << >> ELSE <<c>>
    ELSE LET x == IF a = << >> THEN 0 ELSE Head(a)
             y == IF b = << >> THEN 0 ELSE Head(b)
             s == x + y + c
         IN  <<s % 1000>> \o AddC(IF a = << >> THEN a ELSE Tail(a),
                                  IF b = << >> THEN b ELSE Tail(b),
                                  s \div 1000)

BigAdd(a, b) == Rev(AddC(Rev(a), Rev(b), 0))

\* Subtraction with borrow on least-significant-first digits, for a >= b.
RECURSIVE SubB(_, _, _)
SubB(a, b, c) ==
    IF a = << >> THEN << >>
    ELSE LET y == IF b = << >> THEN 0 ELSE Head(b)
             d == Head(a) - y - c
         IN  <<IF d < 0 THEN d + 1000 ELSE d>>
                \o SubB(Tail(a), IF b = << >> THEN b ELSE Tail(b),
                        IF d < 0 THEN 1 ELSE 0)

BigSub(a, b) == Strip(Rev(SubB(Rev(a), Rev(b), 0)))

\* a times the single digit d, on least-significant-first digits.
RECURSIVE MulD(_, _, _)
MulD(a, d, c) ==
    IF a = << >> THEN IF c = 0 THEN << >> ELSE <<c>>
    ELSE LET p == Head(a) * d + c
         IN  <<p % 1000>> \o MulD(Tail(a), d, p \div 1000)

BigMulDigit(a, d) == Strip(Rev(MulD(Rev(a), d, 0)))

\* Schoolbook multiplication, one digit of b at a time.
RECURSIVE BigMul(_, _)
BigMul(a, b) ==
    IF a = << >> \/ b = << >> THEN << >>
    ELSE LET hi == BigMul(a, SubSeq(b, 1, Len(b) - 1))
         IN  BigAdd(IF hi = << >> THEN << >> ELSE hi \o <<0>>,
                    BigMulDigit(a, b[Len(b)]))

\* The largest digit k in lo..hi with k * b <= r.
RECURSIVE QuotDigit(_, _, _, _)
QuotDigit(b, r, lo, hi) ==
    IF lo = hi THEN lo
    ELSE LET mid == (lo + hi + 1) \div 2
         IN  IF BigLe(BigMulDigit(b, mid), r)
             THEN QuotDigit(b, r, mid, hi)
             ELSE QuotDigit(b, r, lo, mid - 1)

\* Long division of a by b # 0: <<quotient, remainder>>, one digit of a at a
\* time from the most significant.
RECURSIVE BigDivMod(_, _)
BigDivMod(a, b) ==
    IF Len(a) < Len(b) THEN << << >>, a>>
    ELSE LET qr == BigDivMod(SubSeq(a, 1, Len(a) - 1), b)
             r1 == Strip(qr[2] \o <<a[Len(a)]>>)
             d  == QuotDigit(b, r1, 0, 999)
         IN  <<Strip(qr[1] \o <<d>>), BigSub(r1, BigMulDigit(b, d))>>

BigDiv(a, b) == BigDivMod(a, b)[1]
BigMod(a, b) == BigDivMod(a, b)[2]

\* a^n by repeated squaring.
RECURSIVE BigPow(_, _)
BigPow(a, n) ==
    IF n = 0 THEN <<1>>
    ELSE LET h  == BigPow(a, n \div 2)
             sq == BigMul(h, h)
         IN  IF n % 2 = 0 THEN sq ELSE BigMul(sq, a)

\* The number of decimal digits of a > 0.
DecLen(a) == 3 * (Len(a) - 1)
             + (IF a[1] >= 100 THEN 3 ELSE IF a[1] >= 10 THEN 2 ELSE 1)

(***************************************************************************)
(* u64 arithmetic (src/tsc.rs: pub type T = u64).  A Rust `+`, `-` or `*`  *)
(* that leaves the 64-bit range panics in a build with overflow checks (the *)
(* default of a debug build) and wraps in a build without (the default of  *)
(* a release build).  The source does not fix the build, so                *)
(* overflow_checks is chosen in the initial state and never changes.       *)
(***************************************************************************)
VARIABLES
    overflow_checks,  \* the build: TRUE when arithmetic overflow panics
    log_level,        \* the log crate's maximum level: "off", "info", "trace"
    tsc,              \* the last value rdtsc returned
    sets,             \* the TimerSets: ticks_per_second, timers, the Mutex
    threads,          \* each thread's call stack and panic state
    sw,               \* a Stopwatch used on its own through Stopwatch::timed
    hist,             \* history: what the completed calls should add up to
    out,              \* per thread, the info! calls of its last print
    calc              \* the last call of a function of src/tsc.rs

vars == <<overflow_checks, log_level, tsc, sets, threads, sw, hist, out, calc>>

TwoPow64 == BigPow(<<2>>, 64)
U64Max   == BigSub(TwoPow64, <<1>>)
IsU64(a) == BigLt(a, TwoPow64)

\* The two results of an operation that may panic.
Ok(v)  == [panic |-> FALSE, val |-> v]
Panic  == [panic |-> TRUE, val |-> << >>]

\* a + b, a - b and a * b on u64.
Add64(a, b) ==
    LET s == BigAdd(a, b)
    IN  IF IsU64(s) THEN Ok(s)
        ELSE IF overflow_checks THEN Panic ELSE Ok(BigSub(s, TwoPow64))

Sub64(a, b) ==
    IF BigLe(b, a) THEN Ok(BigSub(a, b))
    ELSE IF overflow_checks THEN Panic
    ELSE Ok(BigSub(BigAdd(a, TwoPow64), b))

Mul64(a, b) ==
    LET p == BigMul(a, b)
    IN  IF IsU64(p) THEN Ok(p)
        ELSE IF overflow_checks THEN Panic ELSE Ok(BigMod(p, TwoPow64))

\* A division that gives 0 where the divisor is 0.
Div64_ZeroOnZero(a, b) == IF b = << >> THEN Ok(<< >>) ELSE Ok(BigDiv(a, b))

\* a / b on u64: division by zero panics in every build.
Div64(a, b) == IF b = << >> THEN Panic ELSE Ok(BigDiv(a, b))

(***************************************************************************)
(* f64 arithmetic.  A finite non-negative f64 is the pair <<n, d>> of the  *)
(* exact value n/d; every operation computes the exact result and rounds   *)
(* it to the nearest value with a 53-bit significand, ties to even, as     *)
(* IEEE 754 does.  The values of this program stay far from the subnormal  *)
(* and the overflow range.                                                 *)
(***************************************************************************)
IsEven(a) == a = << >> \/ a[Len(a)] % 2 = 0

\* The integer nearest to n/d, ties to the even one.
RoundHalfEven(n, d) ==
    LET qr    == BigDivMod(n, d)
        twice == BigAdd(qr[2], qr[2])
        up    == BigAdd(qr[1], <<1>>)
    IN  IF BigLt(twice, d) THEN qr[1]
        ELSE IF BigLt(d, twice) THEN up
        ELSE IF IsEven(qr[1]) THEN qr[1] ELSE up

\* 2^k for k in 0..64.
Pow2Tab == [k \in 0..64 |-> BigPow(<<2>>, k)]
Shl(a, k) == BigMul(a, Pow2Tab[k])

\* floor(log2(n/d)) for n/d > 0: the e with d * 2^e <= n < d * 2^(e+1),
\* looked for around the difference of the decimal lengths of n and d.
Log2Floor(n, d) ==
    LET L    == DecLen(n) - DecLen(d)
        from == ((L - 1) * 3321) \div 1000 - 1
    IN  CHOOSE e \in from..(from + 9) :
            LET ns == IF e < 0 THEN Shl(n, 0 - e) ELSE n
                ds == IF e < 0 THEN d ELSE Shl(d, e)
            IN  BigLe(ds, ns) /\ BigLt(ns, BigAdd(ds, ds))

\* The f64 nearest to n/d: n/d is scaled by a power of two into
\* [2^52, 2^53), rounded to an integer and scaled back.
F64(n, d) ==
    IF n = << >> THEN << << >>, <<1>> >>
    ELSE LET s == 52 - Log2Floor(n, d)
         IN  IF s >= 0
             THEN <<RoundHalfEven(Shl(n, s), d), Pow2Tab[s]>>
             ELSE <<Shl(RoundHalfEven(n, Shl(d, 0 - s)), 0 - s), <<1>> >>

F64Div(a, b) == F64(BigMul(a[1], b[2]), BigMul(a[2], b[1]))
F64Mul(a, b) == F64(BigMul(a[1], b[1]), BigMul(a[2], b[2]))

\* `x as f64` for a u64 x.
U64AsF64(x) == F64(x, <<1>>)

\* f64::round: the nearest integer, ties away from zero.
F64Round(a) ==
    LET qr == BigDivMod(a[1], a[2])
    IN  <<IF BigLe(a[2], BigAdd(qr[2], qr[2]))
          THEN BigAdd(qr[1], <<1>>) ELSE qr[1], <<1>> >>

\* `a as u64`: truncation toward zero, saturating at u64::MAX.
F64AsU64(a) ==
    LET q == BigDiv(a[1], a[2])
    IN  IF IsU64(q) THEN q ELSE U64Max

\* f64::log10 followed by f64::floor, for a >= 1: one less than the number
\* of decimal digits of the integer part.  (A log10 that rounds up to the
\* next integer just below a power of ten moves the cut one digit up, and
\* sround then gives that power of ten either way.)
Log10Floor(a) == DecLen(BigDiv(a[1], a[2])) - 1

\* (10.0f64).powf(k) for an integer k: the f64 nearest to 10^k.
Pow10F64(k) == IF k >= 0 THEN F64(BigPow(<<10>>, k), <<1>>)
               ELSE F64(<<1>>, BigPow(<<10>>, 0 - k))

(***************************************************************************)
(* src/tsc.rs                                                              *)
(***************************************************************************)
NS_PER_SEC == 1000000000
US_DIVISOR == 1000
MS_DIVISOR == 1009
SIGDIGS    == 2

\* fn bexp(x: f64, sigdigs: f64) -> f64, for x >= 1.
bexp(x, sigdigs) == Pow10F64(Log10Floor(x) - (sigdigs - 1))

\* fn sround(x: f64, nearest: f64) -> f64
sround(x, nearest) == F64Mul(nearest, F64Round(F64Div(x, nearest)))

\* fn round_keeping_top_sigdigs(x: u64, sigdigs: u32) -> u64.  For x = 0,
\* log10 is -inf, bexp is 0, x / 0 is NaN and `NaN as u64` is 0.
round_keeping_top_sigdigs(x, sigdigs) ==
    IF x = << >> THEN << >>
    ELSE F64AsU64(sround(U64AsF64(x), bexp(U64AsF64(x), sigdigs)))

\* fn calc_tps(dc: u64, dt: u64) -> u64
calc_tps(dc, dt) ==
    LET prod == Mul64(Big(NS_PER_SEC), dc)
        quot == Div64(prod.val, dt)
    IN  IF prod.panic \/ quot.panic THEN Panic
        ELSE Ok(round_keeping_top_sigdigs(quot.val, SIGDIGS))

\* pub fn to_ns(dt: T, tps: T) -> u64
to_ns(dt, tps) ==
    LET prod == Mul64(dt, Big(NS_PER_SEC))
    IN  IF prod.panic THEN Panic ELSE Div64(prod.val, tps)

\* pub fn to_us(dt: T, tps: T) -> u64
to_us(dt, tps) ==
    LET ns == to_ns(dt, tps)
    IN  IF ns.panic THEN Panic ELSE Div64(ns.val, Big(US_DIVISOR))

\* pub fn to_ms(dt: T, tps: T) -> u64
to_ms(dt, tps) ==
    LET us == to_us(dt, tps)
    IN  IF us.panic THEN Panic ELSE Div64(us.val, Big(MS_DIVISOR))

\* pub fn ticks_per_second() -> T, for the readings t0 and t1 of
\* precise_time_ns and c0 and c1 of rdtsc around the sleep.
ticks_per_second(t0, c0, c1, t1) ==
    LET dc == Sub64(c1, c0)
        dt == Sub64(t1, t0)
    IN  IF dc.panic \/ dt.panic THEN Panic ELSE calc_tps(dc.val, dt.val)

(***************************************************************************)
(* src/lib.rs: Stopwatch                                                   *)
(***************************************************************************)
\* Event names are Rust strings, kept as their UTF-8 bytes.
NameInner == <<105, 110, 110, 101, 114>>   \* "inner"
NameOuter == <<111, 117, 116, 101, 114>>   \* "outer"
NameAl    == <<97, 108>>                   \* "al"
NameAlpha == <<97, 108, 112, 104, 97>>     \* "alpha"
NameZebra == <<122, 101, 98, 114, 97>>     \* "zebra"
AllNames  == {NameInner, NameOuter, NameAl, NameAlpha, NameZebra}

\* pub fn new() -> Stopwatch
Stopwatch_new == [total_time |-> << >>, number_of_windows |-> << >>]

\* A timed that adds to total_time and forgets number_of_windows.
Stopwatch_timed_NoCount(s, then, now) ==
    [panic |-> FALSE,
     val   |-> [s EXCEPT !.total_time =
                  BigMod(BigAdd(@, BigSub(now, then)), TwoPow64)]]

\* What Stopwatch::timed leaves in the stopwatch s and how it ends, for an
\* event that returns, with the readings then and now around it:
\* total_time is updated before number_of_windows, so a panic of the
\* second addition leaves the first in place.
Stopwatch_timed(s, then, now) ==
    LET delta == Sub64(now, then)
        total == Add64(s.total_time, delta.val)
        count == Add64(s.number_of_windows, <<1>>)
    IN  IF delta.panic \/ total.panic THEN [panic |-> TRUE, val |-> s]
        ELSE IF count.panic
        THEN [panic |-> TRUE, val |-> [s EXCEPT !.total_time = total.val]]
        ELSE [panic |-> FALSE,
              val   |-> [total_time |-> total.val,
                         number_of_windows |-> count.val]]

\* The info! call of Stopwatch::print.  The log crate evaluates the
\* arguments of info! only when the level is enabled.
NeverRan(name) ==
    [name |-> name, never_ran |-> TRUE, ms |-> << >>, samples |-> << >>,
     avg_us |-> << >>]

\* A print without the test of number_of_windows: it goes straight to the
\* line with the average.
Stopwatch_print_Unguarded(s, name, tps) ==
    IF log_level = "off"
    THEN Ok([NeverRan(name) EXCEPT !.never_ran = FALSE])
    ELSE LET ms  == to_ms(s.total_time, tps)
             avg == Div64(s.total_time, s.number_of_windows)
             us  == to_us(avg.val, tps)
         IN  IF ms.panic \/ avg.panic \/ us.panic THEN Panic
             ELSE Ok([name |-> name, never_ran |-> FALSE, ms |-> ms.val,
                      samples |-> s.number_of_windows, avg_us |-> us.val])

\* fn print(&self, name: &str, tps: tsc::T)
Stopwatch_print(s, name, tps) ==
    IF s.number_of_windows = << >> THEN Ok(NeverRan(name))
    ELSE IF log_level = "off"
    THEN Ok([NeverRan(name) EXCEPT !.never_ran = FALSE])
    ELSE LET ms  == to_ms(s.total_time, tps)
             avg == Div64(s.total_time, s.number_of_windows)
             us  == to_us(avg.val, tps)
         IN  IF ms.panic \/ avg.panic \/ us.panic THEN Panic
             ELSE Ok([name |-> name, never_ran |-> FALSE, ms |-> ms.val,
                      samples |-> s.number_of_windows, avg_us |-> us.val])

\* The divisions that print evaluates, in the order of the arguments of
\* info!, each with what it divides by; a panic ends the evaluation.
Stopwatch_print_divisions(s, tps) ==
    IF s.number_of_windows = << >> \/ log_level = "off" THEN << >>
    ELSE LET by_tps   == [by |-> "tps", d |-> tps]
             by_1000  == [by |-> "1000", d |-> Big(US_DIVISOR)]
             by_1009  == [by |-> "1009", d |-> Big(MS_DIVISOR)]
             by_count == [by |-> "number_of_windows",
                          d  |-> s.number_of_windows]
             to_us_divisions(dt) ==
                 IF Mul64(dt, Big(NS_PER_SEC)).panic THEN << >>
                 ELSE IF tps = << >> THEN <<by_tps>>
                 ELSE <<by_tps, by_1000>>
             ms_divisions ==
                 to_us_divisions(s.total_time)
                   \o (IF to_us(s.total_time, tps).panic THEN << >>
                       ELSE <<by_1009>>)
         IN  IF to_ms(s.total_time, tps).panic THEN ms_divisions
             ELSE ms_divisions \o <<by_count>>
                    \o to_us_divisions(BigDiv(s.total_time,
                                              s.number_of_windows))

(***************************************************************************)
(* src/lib.rs: TimerSet                                                    *)
(***************************************************************************)
MaxCalls == 3   \* calls of time, print and clone the threads start
MaxDepth == 2   \* calls of time nested in one another

Threads == {"t1", "t2"}
RegIds  == {"shared", "snap", "tls_t1", "tls_t2"}

\* A TIMERSET that is one static for all the threads.
TIMERSET_Static(t) == "tls_t1"

\* The thread-local TIMERSET of a thread.
TIMERSET(t) == IF t = "t1" THEN "tls_t1" ELSE "tls_t2"

\* A TimerSet that does not exist (yet).
NoSet == [live |-> FALSE, ticks_per_second |-> << >>, timers |-> << >>,
          lock |-> "none", poisoned |-> FALSE]

\* pub fn new() -> TimerSet, for a calibration that returned tps.
TimerSet_new(tps) ==
    [live |-> TRUE, ticks_per_second |-> tps, timers |-> << >>,
     lock |-> "none", poisoned |-> FALSE]

\* &str::cmp: the order of the bytes, a proper prefix first.
StrLt(a, b) ==
    \/ \E i \in 1..Len(a) :
           /\ i <= Len(b)
           /\ a[i] < b[i]
           /\ \A j \in 1..(i - 1) : a[j] = b[j]
    \/ /\ Len(a) < Len(b)
       /\ \A j \in 1..Len(a) : a[j] = b[j]

\* The comparison print hands to sort_by: |&(k1, _), &(k2, _)| k1.cmp(k2).
cmp(k1, k2) == IF k1 = k2 THEN "Equal"
               ELSE IF StrLt(k1, k2) THEN "Less" ELSE "Greater"

\* Vec::sort_by, a stable sort, as an insertion sort: each element goes
\* behind the elements that do not compare Greater than it.
RECURSIVE sort_by(_)
sort_by(v) ==
    IF v = << >> THEN << >>
    ELSE LET s == sort_by(SubSeq(v, 1, Len(v) - 1))
             x == v[Len(v)]
             k == Cardinality({i \in 1..Len(s) : cmp(s[i], x) # "Greater"})
         IN  SubSeq(s, 1, k) \o <<x>> \o SubSeq(s, k + 1, Len(s))

\* The orders in which HashMap::iter may yield the keys of a map.
Orders(keys) ==
    {v \in [1..Cardinality(keys) -> keys] :
        \A i, j \in 1..Cardinality(keys) : i # j => v[i] # v[j]}

\* Dropping the MutexGuard: the lock is released, and the mutex is
\* poisoned when the guard is dropped by a panic.
DropGuard(set, panicking) ==
    [set EXCEPT !.lock = "none", !.poisoned = @ \/ panicking]

Stack(t) == threads[t].stack
Top(t)   == Stack(t)[Len(Stack(t))]
InTime(t, pc) ==
    /\ Stack(t) # << >>
    /\ Top(t).op = "time"
    /\ Top(t).pc = pc
InPrint(t, pc) ==
    /\ Stack(t) # << >>
    /\ Top(t).op = "print"
    /\ Top(t).pc = pc

\* The calls of time, print and clone started so far.
Calls == threads["t1"].calls + threads["t2"].calls

\* Thread t may start a call: from its own code, or from the closure that
\* a call of time is running.
CanCall(t) ==
    /\ Calls < MaxCalls
    /\ Len(Stack(t)) < MaxDepth
    /\ Stack(t) = << >> \/ InTime(t, "work")

Called(t)    == [threads EXCEPT ![t].calls = @ + 1]
Push(t, f)   == [Called(t) EXCEPT ![t].stack = Append(@, f)]
SetTop(t, f) == [threads EXCEPT ![t].stack[Len(Stack(t))] = f]

\* The threads after the top frame of t has returned: a call made from a
\* closure is noted in the frame of the call that runs the closure.
Returned(t) ==
    LET f == Top(t)
        n == Len(Stack(t))
    IN  IF n > 1 /\ f.op = "time"
        THEN [threads EXCEPT
                ![t].stack = [SubSeq(@, 1, n - 1) EXCEPT
                                ![n - 1].inner = @ \cup {f.name}]]
        ELSE [threads EXCEPT ![t].stack = SubSeq(@, 1, n - 1)]

\* A panic in the top frame of t unwinds the whole stack of t: the frames
\* below are calls of time whose closure is running, and the panic leaves
\* them through `let ret = f();`, where they hold no guard.  The thread's
\* caller sees the panic and goes on.
Panicked(th, t) == [th EXCEPT ![t].stack = << >>, ![t].panics = @ + 1]

(***************************************************************************)
(* History variables: what the calls made so far should add up to.         *)
(***************************************************************************)
NoHist ==
    [started     |-> [r \in RegIds |-> [n \in AllNames |-> 0]],
     done        |-> [r \in RegIds |->
                        [n \in AllNames |-> [n |-> 0, sum |-> << >>]]],
     nest        |-> {},      \* <<registry, outer, inner>> of completed calls
     work_panics |-> 0,       \* the closures that panicked of themselves
     work_failed |-> FALSE,   \* some closure has not returned
     time_failed |-> {},      \* calls that panicked after their work returned
     wrapped     |-> {},      \* stopwatches whose number_of_windows wrapped
     print       |-> [t \in Threads |-> [keys |-> {}, state |-> "none"]],
                              \* the last print of a thread that got the lock:
                              \* the names it found, and how far it is
     origin      |-> "none"]  \* the TimerSet the snapshot was cloned from

\* The call of frame f of thread t has panicked in time itself, its work
\* having returned; with it every closure that t is running has panicked.
TimeFailed(h, t, f) ==
    [h EXCEPT !.time_failed =
                  @ \cup {[reg |-> f.reg, name |-> f.name, inner |-> f.inner]},
              !.work_failed = @ \/ Len(Stack(t)) > 1]

\* The call of frame f has returned.
TimeDone(f) ==
    [hist EXCEPT
        !.done[f.reg][f.name] =
            [n   |-> @.n + 1,
             sum |-> BigMod(BigAdd(@.sum, f.delta), TwoPow64)],
        !.nest = @ \cup {<<f.reg, f.name, i>> : i \in f.inner}]

(***************************************************************************)
(* pub fn time<T, F: FnOnce() -> T>(&self, name: &str, f: F) -> T          *)
(***************************************************************************)
\* A time that takes the lock before it runs f.
TimeStartOn_Locking(S, t, r, name, v) ==
    /\ CanCall(t)
    /\ S[r].live
    /\ S[r].lock = "none"
    /\ BigLe(tsc, v)
    /\ tsc' = v
    /\ sets' = [S EXCEPT ![r].lock = t]
    /\ threads' = Push(t, [op |-> "time", reg |-> r, name |-> name,
                           then |-> v, delta |-> << >>, pc |-> "work",
                           inner |-> {}])
    /\ hist' = [hist EXCEPT !.started[r][name] = @ + 1]
    /\ UNCHANGED <<overflow_checks, log_level, sw, out, calc>>

\* let then = tsc::read(); trace!(...); and f starts to run.
TimeStartOn(S, t, r, name, v) ==
    /\ CanCall(t)
    /\ S[r].live
    /\ BigLe(tsc, v)
    /\ tsc' = v
    /\ sets' = S
    /\ threads' = Push(t, [op |-> "time", reg |-> r, name |-> name,
                           then |-> v, delta |-> << >>, pc |-> "work",
                           inner |-> {}])
    /\ hist' = [hist EXCEPT !.started[r][name] = @ + 1]
    /\ UNCHANGED <<overflow_checks, log_level, sw, out, calc>>

\* A call of TimerSet::time on the TimerSet r.
TimeStart(t, r, name, v) == TimeStartOn(sets, t, r, name, v)

\* An insert without the contains_key test: it replaces the entry.
Inserted_Unchecked(timers, name) ==
    [n \in DOMAIN timers \cup {name} |->
        IF n = name THEN Stopwatch_new ELSE timers[n]]

\* if !timers.contains_key(name) { timers.insert(name, Stopwatch::new()); }
Inserted(timers, name) ==
    IF name \in DOMAIN timers THEN timers
    ELSE [n \in DOMAIN timers \cup {name} |->
            IF n = name THEN Stopwatch_new ELSE timers[n]]

\* A recording that makes the entry of a new name and leaves it at that:
\* the first sample of a name is not counted.
Recorded_FirstUncounted(timers, name, delta) ==
    IF name \in DOMAIN timers
    THEN [panic |-> FALSE,
          val   |-> [timers EXCEPT ![name] =
                       [total_time |->
                            BigMod(BigAdd(@.total_time, delta), TwoPow64),
                        number_of_windows |->
                            BigMod(BigAdd(@.number_of_windows, <<1>>),
                                   TwoPow64)]]]
    ELSE [panic |-> FALSE, val |-> Inserted(timers, name)]

\* The map after the lines under the guard, and how they end: the insert,
\* timer.number_of_windows += 1; and then timer.total_time += total_time;
\* a panic of an addition leaves what was written before it.
Recorded(timers, name, delta) ==
    LET ins   == Inserted(timers, name)
        count == Add64(ins[name].number_of_windows, <<1>>)
        total == Add64(ins[name].total_time, delta)
    IN  IF count.panic THEN [panic |-> TRUE, val |-> ins]
        ELSE IF total.panic
        THEN [panic |-> TRUE,
              val   |-> [ins EXCEPT ![name].number_of_windows = count.val]]
        ELSE [panic |-> FALSE,
              val   |-> [ins EXCEPT ![name] =
                           [total_time |-> total.val,
                            number_of_windows |-> count.val]]]

\* A time that records a sample on its way out of a panic of f.
AfterWorkPanic_Recording(fr) ==
    [sets EXCEPT ![fr.reg].timers = Recorded(@, fr.name, << >>).val]

\* The TimerSets after f has panicked in the call of frame fr: time has
\* no guard and no destructor to run between `let ret = f();` and its end.
AfterWorkPanic(fr) == sets

\* f panics: the panic leaves time through `let ret = f();`.
WorkPanic(t) ==
    /\ InTime(t, "work")
    /\ sets' = AfterWorkPanic(Top(t))
    /\ threads' = Panicked(threads, t)
    /\ hist' = [hist EXCEPT !.work_failed = TRUE, !.work_panics = @ + 1]
    /\ UNCHANGED <<overflow_checks, log_level, tsc, sw, out, calc>>

\* f returns: let now = tsc::read(); let total_time = now - then; trace!(...).
\* The log crate evaluates the arguments of trace! only at level trace.
TimeStop(t, v) ==
    /\ InTime(t, "work")
    /\ BigLe(tsc, v)
    /\ tsc' = v
    /\ LET f       == Top(t)
           elapsed == Sub64(v, f.then)
           traced  == IF log_level = "trace"
                      THEN to_us(elapsed.val, sets[f.reg].ticks_per_second)
                      ELSE Ok(<< >>)
       IN  IF elapsed.panic \/ traced.panic
           THEN /\ threads' = Panicked(threads, t)
                /\ hist' = TimeFailed(hist, t, f)
           ELSE /\ threads' = SetTop(t, [f EXCEPT !.pc = "lock",
                                                  !.delta = elapsed.val])
                /\ hist' = hist
    /\ UNCHANGED <<overflow_checks, log_level, sets, sw, out, calc>>

\* A time that takes the lock of a poisoned mutex and records all the same.
TimeLock_IgnoringPoison(t) ==
    /\ InTime(t, "lock")
    /\ sets[Top(t).reg].lock = "none"
    /\ sets' = [sets EXCEPT
                  ![Top(t).reg].timers =
                      Recorded(@, Top(t).name, Top(t).delta).val,
                  ![Top(t).reg].lock = t]
    /\ threads' = SetTop(t, [Top(t) EXCEPT !.pc = "ret"])
    /\ UNCHANGED <<overflow_checks, log_level, tsc, sw, hist, out, calc>>

\* let mut timers = self.timers.lock().unwrap(); and the lines under the
\* guard.  No other thread sees the map between them.
TimeLock(t) ==
    /\ InTime(t, "lock")
    /\ LET f   == Top(t)
           ts  == sets[f.reg]
           rec == Recorded(ts.timers, f.name, f.delta)
       IN  /\ ts.lock = "none"
           /\ IF ts.poisoned
              THEN /\ sets' = sets
                   /\ threads' = Panicked(threads, t)
                   /\ hist' = TimeFailed(hist, t, f)
              ELSE IF rec.panic
              THEN /\ sets' = [sets EXCEPT ![f.reg] =
                                 DropGuard([ts EXCEPT !.timers = rec.val], TRUE)]
                   /\ threads' = Panicked(threads, t)
                   /\ hist' = TimeFailed(hist, t, f)
              ELSE /\ sets' = [sets EXCEPT ![f.reg].timers = rec.val,
                                           ![f.reg].lock = t]
                   /\ threads' = SetTop(t, [f EXCEPT !.pc = "ret"])
                   /\ hist' = IF /\ f.name \in DOMAIN ts.timers
                                 /\ ts.timers[f.name].number_of_windows = U64Max
                              THEN [hist EXCEPT
                                      !.wrapped = @ \cup {<<f.reg, f.name>>}]
                              ELSE hist
    /\ UNCHANGED <<overflow_checks, log_level, tsc, sw, out, calc>>

\* ret: time returns and the guard is dropped.
TimeReturn(t) ==
    /\ InTime(t, "ret")
    /\ sets' = [sets EXCEPT ![Top(t).reg] = DropGuard(@, FALSE)]
    /\ threads' = Returned(t)
    /\ hist' = TimeDone(Top(t))
    /\ UNCHANGED <<overflow_checks, log_level, tsc, sw, out, calc>>

(***************************************************************************)
(* pub fn print(&self)                                                     *)
(***************************************************************************)
\* let timers = self.timers.lock().unwrap(); and the collect() of the
\* pairs, in the order the HashMap yields them.
PrintLock(t, r, order) ==
    /\ Calls < MaxCalls
    /\ Stack(t) = << >>
    /\ sets[r].live
    /\ sets[r].lock = "none"
    /\ order \in Orders(DOMAIN sets[r].timers)
    /\ IF sets[r].poisoned
       THEN /\ threads' = Panicked(Called(t), t)
            /\ UNCHANGED <<sets, out, hist>>
       ELSE /\ threads' = Push(t, [op |-> "print", reg |-> r, pc |-> "sort",
                                   vec |-> order, i |-> 1])
            /\ sets' = [sets EXCEPT ![r].lock = t]
            /\ out' = [out EXCEPT ![t] = << >>]
            /\ hist' = [hist EXCEPT !.print[t] =
                          [keys |-> DOMAIN sets[r].timers, state |-> "running"]]
    /\ UNCHANGED <<overflow_checks, log_level, tsc, sw, calc>>

\* timer_vec.sort_by(|&(k1, _), &(k2, _)| k1.cmp(k2));
PrintSort(t) ==
    /\ InPrint(t, "sort")
    /\ threads' = SetTop(t, [Top(t) EXCEPT !.vec = sort_by(@), !.pc = "emit"])
    /\ UNCHANGED <<overflow_checks, log_level, tsc, sets, sw, hist, out, calc>>

\* One turn of the loop: v.print(k, self.ticks_per_second);
PrintEmit(t) ==
    /\ InPrint(t, "emit")
    /\ Top(t).i <= Len(Top(t).vec)
    /\ LET f    == Top(t)
           k    == f.vec[f.i]
           line == Stopwatch_print(sets[f.reg].timers[k], k,
                                   sets[f.reg].ticks_per_second)
       IN  IF line.panic
           THEN /\ sets' = [sets EXCEPT ![f.reg] = DropGuard(@, TRUE)]
                /\ threads' = Panicked(threads, t)
                /\ out' = out
                /\ hist' = [hist EXCEPT !.print[t].state = "panicked"]
           ELSE /\ sets' = sets
                /\ threads' = SetTop(t, [f EXCEPT !.i = @ + 1])
                /\ out' = [out EXCEPT ![t] = Append(@, line.val)]
                /\ hist' = hist
    /\ UNCHANGED <<overflow_checks, log_level, tsc, sw, calc>>

\* The loop is over: print returns and the guard is dropped.
PrintReturn(t) ==
    /\ InPrint(t, "emit")
    /\ Top(t).i > Len(Top(t).vec)
    /\ sets' = [sets EXCEPT ![Top(t).reg] = DropGuard(@, FALSE)]
    /\ threads' = Returned(t)
    /\ hist' = [hist EXCEPT !.print[t].state = "returned"]
    /\ UNCHANGED <<overflow_checks, log_level, tsc, sw, out, calc>>

(***************************************************************************)
(* The thread-local TIMERSET and the free functions time and clone         *)
(***************************************************************************)
\* TIMERSET.with(...): the TimerSet of thread t is made by TimerSet::new()
\* on first use, with the tps its calibration returns.
With(t, tps) ==
    IF sets[TIMERSET(t)].live THEN sets
    ELSE [sets EXCEPT ![TIMERSET(t)] = TimerSet_new(tps)]

\* pub fn time<T, F: FnOnce() -> T>(name: &str, f: F) -> T
FacadeTime(t, name, v, tps) ==
    TimeStartOn(With(t, tps), t, TIMERSET(t), name, v)

\* A clone that copies ticks_per_second and starts with an empty map.
TimerSet_clone_Empty(ts) == TimerSet_new(ts.ticks_per_second)

\* The TimerSet that clone builds from the TimerSet ts.
TimerSet_clone(ts) ==
    [live |-> TRUE, ticks_per_second |-> ts.ticks_per_second,
     timers |-> ts.timers, lock |-> "none", poisoned |-> FALSE]

\* pub fn clone() -> TimerSet
Clone(t, tps) ==
    /\ CanCall(t)
    /\ ~sets["snap"].live
    /\ LET S  == With(t, tps)
           ts == S[TIMERSET(t)]
       IN  /\ ts.lock = "none"
           /\ IF ts.poisoned
              THEN /\ sets' = S
                   /\ threads' = Panicked(Called(t), t)
                   /\ hist' = [hist EXCEPT
                                 !.work_failed = @ \/ Stack(t) # << >>]
              ELSE /\ sets' = [S EXCEPT !["snap"] = TimerSet_clone(ts)]
                   /\ threads' = Called(t)
                   /\ hist' = [hist EXCEPT
                                 !.origin = TIMERSET(t),
                                 !.started["snap"] =
                                     hist.started[TIMERSET(t)],
                                 !.done["snap"] = hist.done[TIMERSET(t)]]
    /\ UNCHANGED <<overflow_checks, log_level, tsc, sw, out, calc>>

(***************************************************************************)
(* A Stopwatch used on its own                                             *)
(***************************************************************************)
\* The name the history knows the Stopwatch sw by.
SwId == <<"sw", << >>>>

\* let mut s = Stopwatch::new(); in the code of thread t.
SwNew(t) ==
    /\ Calls < MaxCalls
    /\ Stack(t) = << >>
    /\ sw' = Stopwatch_new
    /\ threads' = Called(t)
    /\ hist' = [hist EXCEPT !.wrapped = @ \ {SwId}]
    /\ UNCHANGED <<overflow_checks, log_level, tsc, sets, out, calc>>

\* pub fn timed<T, F: FnOnce() -> T>(&mut self, event: F) -> T, called by
\* thread t for an event that returns, between the readings then and now.
SwTimed(t, then, now) ==
    /\ Calls < MaxCalls
    /\ Stack(t) = << >>
    /\ BigLe(tsc, then)
    /\ BigLe(then, now)
    /\ tsc' = now
    /\ LET r == Stopwatch_timed(sw, then, now)
       IN  /\ sw' = r.val
           /\ threads' = IF r.panic THEN Panicked(Called(t), t) ELSE Called(t)
           /\ hist' = IF ~r.panic /\ sw.number_of_windows = U64Max
                      THEN [hist EXCEPT !.wrapped = @ \cup {SwId}]
                      ELSE hist
    /\ UNCHANGED <<overflow_checks, log_level, sets, out, calc>>

(***************************************************************************)
(* Calls of the functions of src/tsc.rs                                    *)
(***************************************************************************)
NoCall == [fn |-> "none", args |-> << >>, ret |-> Ok(<< >>)]

Call(fn, args, ret) ==
    /\ calc = NoCall
    /\ calc' = [fn |-> fn, args |-> args, ret |-> ret]
    /\ UNCHANGED <<overflow_checks, log_level, tsc, sets, threads, sw, hist, out>>

CallToNs(dt, tps) == Call("to_ns", <<dt, tps>>, to_ns(dt, tps))
CallToUs(dt, tps) == Call("to_us", <<dt, tps>>, to_us(dt, tps))
CallToMs(dt, tps) == Call("to_ms", <<dt, tps>>, to_ms(dt, tps))
CallRound(x) ==
    Call("round_keeping_top_sigdigs", <<x>>,
         Ok(round_keeping_top_sigdigs(x, SIGDIGS)))
CallCalcTps(dc, dt) == Call("calc_tps", <<dc, dt>>, calc_tps(dc, dt))
CallTicksPerSecond(t0, c0, c1, t1) ==
    Call("ticks_per_second", <<t0, c0, c1, t1>>,
         ticks_per_second(t0, c0, c1, t1))

(***************************************************************************)
(* SpecTsc: one call of a function of src/tsc.rs, in either build          *)
(***************************************************************************)
IdleThreads == [t \in Threads |-> [stack |-> << >>, panics |-> 0,
                                   calls |-> 0]]
NoOut == [t \in Threads |-> << >>]

\* Tick counts: around the operands whose product with 10^9 leaves u64
\* (2^64 / 10^9 = 18_446_744_073.7), and the ends of the type.
TickInputs ==
    {<< >>, <<1>>, <<999>>, <<1, 0>>, <<1, 0, 0>>, <<1, 9, 0>>,
     <<3, 0, 0, 0>>, <<18, 446, 744, 73>>, <<18, 446, 744, 74>>,
     BigPow(<<2>>, 63), U64Max}
TpsInputs ==
    {<< >>, <<1>>, <<1, 0>>, <<1, 0, 0, 0>>, <<2, 500, 0, 0>>, <<3, 0, 0, 0>>}

\* Arguments of round_keeping_top_sigdigs: one and two digits, the values
\* of test_calc_tps, ties, a reading of a 3 GHz counter, and values above
\* 2^53, which f64 does not hold exactly.
RoundInputs ==
    {<< >>, <<1>>, <<5>>, <<10>>, <<99>>, <<125>>, <<994>>, <<995>>,
     <<10, 0, 0>>, <<12, 400, 0>>, <<12, 500, 0>>, <<12, 600, 0>>,
     <<2, 999, 812, 345>>, <<3, 49, 999, 999>>, <<3, 50, 0, 0>>,
     <<9, 7, 199, 254, 740, 993>>,
     <<12, 499, 999, 999, 999, 999, 999>>,
     <<12, 500, 0, 0, 0, 0, 1>>,
     <<18, 400, 0, 0, 0, 0, 0>>, U64Max}

\* <<dc, dt>>: the calls of test_calc_tps, a 100 us sleep at 3 GHz, a
\* clock that did not advance, and a product that leaves u64.
CalcTpsInputs ==
    {<<<<10, 0, 0>>, <<1, 0, 0>>>>, <<<<12, 400, 0>>, <<1, 0, 0>>>>,
     <<<<12, 600, 0>>, <<1, 0, 0>>>>, <<<<300, 0>>, <<100, 0>>>>,
     <<<<312, 345>>, <<104, 211>>>>, <<<<300, 0>>, << >>>>,
     <<<< >>, <<100, 0>>>>, <<<<18, 446, 744, 74>>, <<1, 0, 0>>>>}

\* <<t0, c0, c1, t1>>: the readings of one calibration; in the last two
\* the wall clock stands still or steps back.
Calibrations ==
    {<<<<5, 0>>, <<1, 0>>, <<301, 0>>, <<105, 0>>>>,
     <<<<5, 0>>, <<1, 0>>, <<251, 0>>, <<105, 0>>>>,
     <<<<5, 0>>, <<1, 0>>, <<301, 0>>, <<5, 0>>>>,
     <<<<5, 0>>, <<1, 0>>, <<301, 0>>, <<4, 0>>>>}

InitTsc ==
    /\ overflow_checks \in BOOLEAN
    /\ log_level = "off"
    /\ tsc = << >>
    /\ sets = [r \in RegIds |-> NoSet]
    /\ threads = IdleThreads
    /\ sw = Stopwatch_new
    /\ hist = NoHist
    /\ out = NoOut
    /\ calc = NoCall

NextTsc ==
    \/ \E dt \in TickInputs, tps \in TpsInputs : CallToNs(dt, tps)
    \/ \E dt \in TickInputs, tps \in TpsInputs : CallToUs(dt, tps)
    \/ \E dt \in TickInputs, tps \in TpsInputs : CallToMs(dt, tps)
    \/ \E x \in RoundInputs : CallRound(x)
    \/ \E a \in CalcTpsInputs : CallCalcTps(a[1], a[2])
    \/ \E c \in Calibrations : CallTicksPerSecond(c[1], c[2], c[3], c[4])

SpecTsc == InitTsc /\ [][NextTsc]_vars

\* C8: for every tick count x and every nonzero cps, to_ms(x, cps) is
\* to_us(x, cps) divided by 1000 with integer division (and fails where
\* to_us fails).
C8_ToMsIsToUsDiv1000 ==
    calc.fn = "to_ms" /\ calc.args[2] # << >> =>
        LET us == to_us(calc.args[1], calc.args[2])
        IN  calc.ret = IF us.panic THEN Panic
                       ELSE Ok(BigDiv(us.val, <<1, 0>>))

\* The multiple of 10^(floor(log10 x) - 1) nearest to x, ties going away
\* from zero, in integer arithmetic; below 10 the unit is 1/10 and x is
\* a multiple of it.
NearestMultiple(x) ==
    IF x = << >> \/ DecLen(x) < 2 THEN x
    ELSE LET unit == BigPow(<<10>>, DecLen(x) - 2)
             q    == BigDivMod(x, unit)
             up   == BigLe(unit, BigAdd(q[2], q[2]))
         IN  BigMul(IF up THEN BigAdd(q[1], <<1>>) ELSE q[1], unit)

\* C9: round_keeping_top_sigdigs(x, 2) is, for every positive x, the
\* multiple of 10^(floor(log10 x) - 1) nearest to x, ties rounded away from
\* zero, and calc_tps(dc, dt) is that rounding of (1_000_000_000 * dc) / dt.
C9_RoundsToNearestMultiple ==
    /\ calc.fn = "round_keeping_top_sigdigs" /\ calc.args[1] # << >> =>
           calc.ret = Ok(NearestMultiple(calc.args[1]))
    /\ calc.fn = "calc_tps" /\ calc.args[2] # << >>
         /\ BigLe(calc.args[2], BigMul(Big(NS_PER_SEC), calc.args[1]))
         /\ IsU64(BigMul(Big(NS_PER_SEC), calc.args[1])) =>
           calc.ret = Ok(NearestMultiple(
               BigDiv(BigMul(Big(NS_PER_SEC), calc.args[1]), calc.args[2])))

(***************************************************************************)
(* Spec: two threads call time on one shared TimerSet                      *)
(***************************************************************************)
\* What calc_tps returns for dc ticks in dt nanoseconds where the product
\* stays in u64 and dt is not 0, in either build.
Calibrated(dc, dt) ==
    round_keeping_top_sigdigs(BigDiv(BigMul(Big(NS_PER_SEC), dc), dt),
                              SIGDIGS)

\* The tps of a TimerSet: a calibration that sleeps 100 us at 3 GHz.
CalibratedTps == Calibrated(<<300, 0>>, <<100, 0>>)

\* The values rdtsc returns.  The counter does not step back; between the
\* first and the last value lie more ticks than 2^64 / 10^9, and two such
\* intervals together leave u64.
Readings == {<<1, 0>>, <<4, 0>>, U64Max}

Names == {NameInner, NameOuter}

Init ==
    /\ overflow_checks \in BOOLEAN
    /\ log_level \in {"info", "trace"}
    /\ tsc = << >>
    /\ sets = [r \in RegIds |->
                 IF r = "shared" THEN TimerSet_new(CalibratedTps) ELSE NoSet]
    /\ threads = IdleThreads
    /\ sw = Stopwatch_new
    /\ hist = NoHist
    /\ out = NoOut
    /\ calc = NoCall

Next ==
    \/ \E t \in Threads, n \in Names, v \in Readings :
           TimeStart(t, "shared", n, v)
    \/ \E t \in Threads : WorkPanic(t)
    \/ \E t \in Threads, v \in Readings : TimeStop(t, v)
    \/ \E t \in Threads : TimeLock(t)
    \/ \E t \in Threads : TimeReturn(t)

Spec == Init /\ [][Next]_vars

\* The map of the shared TimerSet.
SharedTimers == sets["shared"].timers

\* C1: when every one of the K calls of time made with one name on the
\* shared TimerSet has returned, whatever the interleaving of the threads,
\* the map holds the name (a map holds a key once) and its
\* number_of_windows is K.
C1_NoLostUpdates ==
    \A n \in Names :
        LET K == hist.started["shared"][n]
        IN  K > 0 /\ hist.done["shared"][n].n = K =>
                /\ n \in DOMAIN SharedTimers
                /\ SharedTimers[n].number_of_windows = Big(K)

\* Both threads have returned from a call with the same name, and the two
\* calls overlapped: each ran from the reading 1000 to the reading 4000,
\* which calls one after the other cannot do.
C1_Witness ==
    /\ threads["t1"].calls = 1
    /\ threads["t2"].calls = 1
    /\ hist.started["shared"][NameInner] = 2
    /\ hist.done["shared"][NameInner] = [n |-> 2, sum |-> <<6, 0>>]

\* C2: where every work closure returns normally, after N completed calls
\* under a name the stopwatch of the name has number_of_windows = N and
\* total_time the sum of the N differences of end and start reading (a
\* u64, so the sum modulo 2^64).  Stated of the states in which no call
\* is under the guard.
C2_CountAndTotal ==
    \A n \in Names :
        LET d == hist.done["shared"][n]
        IN  ~hist.work_failed /\ sets["shared"].lock = "none" /\ d.n > 0 =>
                /\ n \in DOMAIN SharedTimers
                /\ SharedTimers[n].number_of_windows = Big(d.n)
                /\ SharedTimers[n].total_time = d.sum

\* C3: a step in which the work closure of a call of time panics leaves
\* every TimerSet as it was (no entry made, no number_of_windows and no
\* total_time changed), and the panic reaches the caller of the thread.
C3_WorkPanicLeavesMap ==
    [][\A t \in Threads :
          InTime(t, "work") /\ hist'.work_panics # hist.work_panics
              /\ threads'[t] # threads[t] =>
                  /\ sets' = sets
                  /\ threads'[t].stack = << >>
                  /\ threads'[t].panics = threads[t].panics + 1]_vars

\* A closure has panicked in a call whose name has no entry, while the
\* map holds an entry of an earlier call.
C3_Witness ==
    /\ hist.work_panics > 0
    /\ hist.started["shared"][NameOuter] > 0
    /\ NameOuter \notin DOMAIN SharedTimers
    /\ NameInner \in DOMAIN SharedTimers

\* C4: a call time("outer", work) whose work calls time("inner", ...) on
\* the same TimerSet always completes: the inner call never waits for a
\* lock its own thread holds, and a call whose closure has made a call and
\* returned does not fail.  Afterwards both names have number_of_windows
\* 1, each total_time is the difference of the readings of its own call,
\* and the total of outer is at least the total of inner.
C4_NestedCalls ==
    /\ \A t \in Threads :
           InTime(t, "lock") => sets[Top(t).reg].lock # t
    /\ \A x \in hist.time_failed : x.inner = {}
    /\ <<"shared", NameOuter, NameInner>> \in hist.nest
         /\ hist.started["shared"][NameOuter] = 1
         /\ hist.started["shared"][NameInner] = 1 =>
           /\ SharedTimers[NameOuter].number_of_windows = <<1>>
           /\ SharedTimers[NameInner].number_of_windows = <<1>>
           /\ SharedTimers[NameOuter].total_time
                = hist.done["shared"][NameOuter].sum
           /\ SharedTimers[NameInner].total_time
                = hist.done["shared"][NameInner].sum
           /\ BigLe(SharedTimers[NameInner].total_time,
                    SharedTimers[NameOuter].total_time)

\* C5: no thread holds the lock of a TimerSet while the closure of its
\* call is running: a thread that holds it is in the call of time on that
\* TimerSet, past the end of work and the reading of the end timestamp,
\* and has not returned.
C5_NoLockDuringWork ==
    \A t \in Threads, r \in RegIds :
        /\ InTime(t, "work") => sets[r].lock # t
        /\ sets[r].lock = t =>
               /\ Stack(t) # << >>
               /\ Top(t).reg = r
               /\ Top(t).op = "time" => Top(t).pc = "ret"

\* While the closure of t1 runs, t2 is under the guard of the same
\* TimerSet, recording its own sample.
C5_Witness ==
    /\ InTime("t1", "work")
    /\ Top("t1").reg = "shared"
    /\ sets["shared"].lock = "t2"


(***************************************************************************)
(* SpecFacade: the threads use the free functions time and clone, and      *)
(* call time on the snapshot that clone returns                            *)
(***************************************************************************)
\* What the calibration of a thread's TimerSet may return: 3 GHz or 2.5 GHz.
CalibratedTpsSet == {CalibratedTps, Calibrated(<<250, 0>>, <<100, 0>>)}

FacadeNames == {NameAlpha}

InitFacade ==
    /\ overflow_checks \in BOOLEAN
    /\ log_level = "info"
    /\ tsc = << >>
    /\ sets = [r \in RegIds |-> NoSet]
    /\ threads = IdleThreads
    /\ sw = Stopwatch_new
    /\ hist = NoHist
    /\ out = NoOut
    /\ calc = NoCall

NextFacade ==
    \/ \E t \in Threads, n \in FacadeNames, v \in Readings,
          tps \in CalibratedTpsSet : FacadeTime(t, n, v, tps)
    \/ \E t \in Threads, tps \in CalibratedTpsSet : Clone(t, tps)
    \/ \E t \in Threads, n \in FacadeNames, v \in Readings :
           TimeStart(t, "snap", n, v)
    \/ \E t \in Threads : WorkPanic(t)
    \/ \E t \in Threads, v \in Readings : TimeStop(t, v)
    \/ \E t \in Threads : TimeLock(t)
    \/ \E t \in Threads : TimeReturn(t)

SpecFacade == InitFacade /\ [][NextFacade]_vars

\* C6: the snapshot that clone returns holds, when it is made, the entries
\* and the ticks_per_second of the TimerSet it is taken from; from then on
\* a step that changes the map of the one leaves the other as it is.
C6_SnapshotIndependent ==
    [][/\ ~sets["snap"].live /\ sets'["snap"].live =>
              /\ sets'["snap"].timers = sets'[hist'.origin].timers
              /\ sets'["snap"].ticks_per_second
                   = sets'[hist'.origin].ticks_per_second
       /\ sets["snap"].live =>
              /\ sets'[hist.origin].timers # sets[hist.origin].timers =>
                     sets'["snap"] = sets["snap"]
              /\ sets'["snap"].timers # sets["snap"].timers =>
                     sets'[hist.origin] = sets[hist.origin]]_vars

\* The snapshot holds the entry it was made with, and a later call of time
\* has changed the same entry of the TimerSet it was taken from.
C6_Witness ==
    /\ sets["snap"].live
    /\ \E n \in FacadeNames :
           /\ n \in DOMAIN sets["snap"].timers
           /\ n \in DOMAIN sets[hist.origin].timers
           /\ sets["snap"].timers[n].number_of_windows = <<1>>
           /\ sets[hist.origin].timers[n].number_of_windows = <<2>>


(***************************************************************************)
(* SpecPrint: the threads call print and time on a shared TimerSet that    *)
(* earlier calls of time have filled                                       *)
(***************************************************************************)
PrintNames == {NameAl, NameAlpha, NameZebra}

\* What earlier calls have made of a name: no call, one call from the
\* reading 1000 to the reading 4000, or one from 1000 to the last reading.
Pasts == {"absent", "short", "long"}
PastDelta(past) ==
    IF past = "short" THEN <<3, 0>> ELSE BigSub(U64Max, <<1, 0>>)

\* The map of a TimerSet after the calls that p names, one past per name:
\* each entry is what one call of time records.
MapAfter(p) ==
    [n \in {m \in PrintNames : p[m] # "absent"} |->
        Recorded(<< >>, n, PastDelta(p[n])).val[n]]

\* The history of the calls that p names.
HistAfter(p) ==
    [NoHist EXCEPT
        !.started["shared"] =
            [n \in AllNames |->
                IF n \in PrintNames /\ p[n] # "absent" THEN 1 ELSE 0],
        !.done["shared"] =
            [n \in AllNames |->
                IF n \in PrintNames /\ p[n] # "absent"
                THEN [n |-> 1, sum |-> PastDelta(p[n])]
                ELSE [n |-> 0, sum |-> << >>]]]

\* The pasts of the TimerSet: every set of names with short calls, and
\* two in which a name has run long enough for to_ns to leave u64.
PrintPasts ==
    [PrintNames -> {"absent", "short"}]
      \cup {p \in [PrintNames -> Pasts] :
               /\ p[NameAlpha] = "long"
               /\ p[NameZebra] = "short"
               /\ p[NameAl] \in {"absent", "short"}}

InitPrint ==
    /\ overflow_checks \in BOOLEAN
    /\ log_level \in {"off", "info"}
    /\ tsc = U64Max
    /\ \E p \in PrintPasts :
           /\ sets = [r \in RegIds |->
                        IF r = "shared"
                        THEN [TimerSet_new(CalibratedTps) EXCEPT
                                !.timers = MapAfter(p)]
                        ELSE NoSet]
           /\ hist = HistAfter(p)
    /\ threads = IdleThreads
    /\ sw = Stopwatch_new
    /\ out = NoOut
    /\ calc = NoCall

\* t1 is the thread that prints, t2 the thread that times.
NextPrint ==
    \/ \E n \in PrintNames, v \in Readings : TimeStart("t2", "shared", n, v)
    \/ \E v \in Readings : TimeStop("t2", v)
    \/ TimeLock("t2")
    \/ TimeReturn("t2")
    \/ \E order \in Orders(DOMAIN sets["shared"].timers) :
           PrintLock("t1", "shared", order)
    \/ PrintSort("t1")
    \/ PrintEmit("t1")
    \/ PrintReturn("t1")

SpecPrint == InitPrint /\ [][NextPrint]_vars


\* The names of the lines a thread's last print has emitted.
OutNames(t) == [i \in 1..Len(out[t]) |-> out[t][i].name]

\* C7: print emits exactly one line per name in the map, in strictly
\* increasing byte order of the names, whatever the order in which the
\* names came into the map: the lines emitted so far are in strictly
\* increasing order, and a print that has ended has emitted one line for
\* each name it found.
C7_PrintSortedOnePerName ==
    \A t \in Threads :
        /\ \A i \in 1..(Len(out[t]) - 1) :
               StrLt(OutNames(t)[i], OutNames(t)[i + 1])
        /\ hist.print[t].state \in {"returned", "panicked"} =>
               /\ Len(out[t]) = Cardinality(hist.print[t].keys)
               /\ {OutNames(t)[i] : i \in 1..Len(out[t])} = hist.print[t].keys

(***************************************************************************)
(* SpecStopwatch: a Stopwatch used through new and timed, and the entry of *)
(* a TimerSet used through time, up to the end of the range of             *)
(* number_of_windows                                                       *)
(***************************************************************************)
\* A stopwatch as new makes it, and one that 2^64 - 2 calls have timed.
StopwatchPasts ==
    {Stopwatch_new,
     [total_time |-> <<3, 0>>, number_of_windows |-> BigSub(U64Max, <<1>>)]}

InitStopwatch ==
    /\ overflow_checks \in BOOLEAN
    /\ log_level = "info"
    /\ tsc = << >>
    /\ sw \in StopwatchPasts
    /\ \E s \in StopwatchPasts :
           sets = [r \in RegIds |->
                     IF r = "shared"
                     THEN [TimerSet_new(CalibratedTps) EXCEPT
                             !.timers = IF s = Stopwatch_new THEN << >>
                                        ELSE [n \in {NameAlpha} |-> s]]
                     ELSE NoSet]
    /\ threads = IdleThreads
    /\ hist = NoHist
    /\ out = NoOut
    /\ calc = NoCall

\* t1 times with the TimerSet, t2 with its own Stopwatch.
NextStopwatch ==
    \/ SwNew("t2")
    \/ \E then \in Readings, now \in Readings : SwTimed("t2", then, now)
    \/ \E v \in Readings : TimeStart("t1", "shared", NameAlpha, v)
    \/ \E v \in Readings : TimeStop("t1", v)
    \/ TimeLock("t1")
    \/ TimeReturn("t1")

SpecStopwatch == InitStopwatch /\ [][NextStopwatch]_vars

\* The stopwatches of a state, each with the name the history knows it by.
Stopwatches ==
    {<<SwId, sw>>}
      \cup {<<<<r, n>>, sets[r].timers[n]>> :
               r \in {"shared"}, n \in DOMAIN sets["shared"].timers}

\* C10 as claimed: every Stopwatch that new, timed and time lead to has
\* total_time = 0 when its number_of_windows = 0, also after the counters
\* have wrapped around.
C10_ZeroCountZeroTotal ==
    \A s \in Stopwatches :
        s[2].number_of_windows = << >> => s[2].total_time = << >>

\* C10 as amended: every Stopwatch that new, timed and time lead to, and
\* whose number_of_windows has not wrapped around, has total_time = 0 when
\* its number_of_windows = 0.
C10_ZeroCountZeroTotalUnwrapped ==
    \A s \in Stopwatches :
        s[1] \notin hist.wrapped /\ s[2].number_of_windows = << >> =>
            s[2].total_time = << >>

\* The Stopwatch of t2 has been timed and then made anew (t1 has made no
\* call, so the clock was read by timed): its count is 0 and has not
\* wrapped around.
C10_Witness ==
    /\ threads["t1"].calls = 0
    /\ tsc # << >>
    /\ sw = Stopwatch_new
    /\ SwId \notin hist.wrapped


(***************************************************************************)
(* SpecRender: one call of Stopwatch::print, in either build and with the  *)
(* log level off or info                                                   *)
(***************************************************************************)
\* The stopwatches print is called for: one that never ran, entries of a
\* map after one and two calls, after a long call, after 2^64 - 1 calls,
\* and one whose number_of_windows has wrapped around to 0.
RenderStopwatches ==
    {Stopwatch_new,
     [total_time |-> <<3, 0>>, number_of_windows |-> <<1>>],
     [total_time |-> <<6, 0>>, number_of_windows |-> <<2>>],
     [total_time |-> BigSub(U64Max, <<1, 0>>), number_of_windows |-> <<1>>],
     [total_time |-> <<9, 0>>, number_of_windows |-> U64Max],
     [total_time |-> <<9, 0>>, number_of_windows |-> << >>]}

\* timer.print(name, self.ticks_per_second) for the stopwatch s.  A count
\* of 0 beside a total that is not 0 is left by a wrap-around, which a
\* build with overflow checks does not do.
CallPrint(s, name, tps) ==
    /\ calc = NoCall
    /\ s.number_of_windows = << >> /\ s.total_time # << >> => ~overflow_checks
    /\ calc' = [fn   |-> "print", args |-> <<s, name, tps>>,
                ret  |-> Stopwatch_print(s, name, tps),
                divs |-> Stopwatch_print_divisions(s, tps)]
    /\ UNCHANGED <<overflow_checks, log_level, tsc, sets, threads, sw, hist, out>>

InitRender ==
    /\ overflow_checks \in BOOLEAN
    /\ log_level \in {"off", "info"}
    /\ tsc = << >>
    /\ sets = [r \in RegIds |-> NoSet]
    /\ threads = IdleThreads
    /\ sw = Stopwatch_new
    /\ hist = NoHist
    /\ out = NoOut
    /\ calc = NoCall

NextRender ==
    \E s \in RenderStopwatches, n \in PrintNames, tps \in TpsInputs :
        CallPrint(s, n, tps)

SpecRender == InitRender /\ [][NextRender]_vars

\* C11: print of a stopwatch whose number_of_windows is 0 gives the
\* "never ran" line and evaluates no division, whatever ticks_per_second
\* is (0 too), so it does not fail; and every division by
\* number_of_windows that a print evaluates has number_of_windows > 0.
C11_NeverRanNoDivision ==
    calc.fn = "print" =>
        /\ calc.args[1].number_of_windows = << >> =>
               /\ calc.ret = Ok(NeverRan(calc.args[2]))
               /\ calc.divs = << >>
        /\ \A i \in 1..Len(calc.divs) :
               calc.divs[i].by = "number_of_windows" =>
                   calc.divs[i].d # << >>

\* print has given the "never ran" line for a stopwatch that never ran,
\* at level info and with a ticks_per_second of 0.
C11_Witness ==
    /\ calc.fn = "print"
    /\ log_level = "info"
    /\ calc.args[1].number_of_windows = << >>
    /\ calc.args[3] = << >>
    /\ calc.ret = Ok(NeverRan(calc.args[2]))


(***************************************************************************)
(* Further properties of the functions of src/tsc.rs, under SpecTsc        *)
(***************************************************************************)
\* C12: to_ns, to_us and to_ms with a ticks_per_second of 0 end in a panic
\* for every tick count; they return no value.
C12_ZeroTpsFails ==
    calc.fn \in {"to_ns", "to_us", "to_ms"} /\ calc.args[2] = << >> =>
        calc.ret = Panic

\* to_ms of 0 ticks with a ticks_per_second of 0, in a build without
\* overflow checks, has panicked.
C12_Witness ==
    /\ ~overflow_checks
    /\ calc.fn = "to_ms"
    /\ calc.args = << << >>, << >> >>
    /\ calc.ret.panic

\* C13: a calibration whose wall clock readings have t1 <= t0 fails: it
\* returns no ticks_per_second.
C13_BadClockFails ==
    calc.fn = "ticks_per_second" /\ BigLe(calc.args[4], calc.args[1]) =>
        calc.ret = Panic

\* C18: for every tick count and every nonzero cps, to_ns(ticks, cps) is
\* the integer quotient of the exact product ticks * 1_000_000_000 by cps.
C18_ToNsExact ==
    calc.fn = "to_ns" /\ calc.args[2] # << >> =>
        calc.ret = Ok(BigDiv(BigMul(calc.args[1], Big(NS_PER_SEC)),
                             calc.args[2]))


(***************************************************************************)
(* Further properties of the free functions, under SpecFacade              *)
(***************************************************************************)
\* C14: the default TimerSet is per thread.  A step of one thread leaves
\* the default TimerSet of the other as it is; the free function time,
\* called by a thread, runs on that thread's own default TimerSet, which
\* exists from then on without any other initialisation; and the
\* snapshot that clone returns to a thread holds the map and the
\* ticks_per_second of that thread's default TimerSet.
C14_DefaultPerThread ==
    [][LET Own == [t \in Threads |-> IF t = "t1" THEN "tls_t1" ELSE "tls_t2"]
       IN  \A t \in Threads :
             /\ threads'[t] = threads[t] => sets'[Own[t]] = sets[Own[t]]
             /\ Len(threads'[t].stack) = Len(threads[t].stack) + 1 =>
                    LET f == threads'[t].stack[Len(threads'[t].stack)]
                    IN  f.reg # "snap" =>
                            /\ f.reg = Own[t]
                            /\ sets'[f.reg].live
             /\ threads'[t] # threads[t]
                  /\ ~sets["snap"].live /\ sets'["snap"].live =>
                    /\ sets'[Own[t]].live
                    /\ sets'["snap"].timers = sets'[Own[t]].timers
                    /\ sets'["snap"].ticks_per_second
                         = sets'[Own[t]].ticks_per_second]_vars

\* t2 has recorded a sample through the free function time, and the
\* snapshot that clone has returned to t1, whose default TimerSet clone
\* was the first to use, is empty.
C14_Witness ==
    /\ sets["snap"].live
    /\ hist.origin = "tls_t1"
    /\ sets["snap"].timers = << >>
    /\ sets["tls_t1"].timers = << >>
    /\ NameAlpha \in DOMAIN sets["tls_t2"].timers


(***************************************************************************)
(* Further properties of TimerSet::print, under SpecPrint                  *)
(***************************************************************************)
\* C15: print holds the lock of the TimerSet only while it collects the
\* pairs: while it sorts them and while it emits the lines, the lock is
\* not held by the thread that prints, so that a call of time on the same
\* TimerSet is not kept waiting.
C15_PrintLockOnlyCollects ==
    \A t \in Threads :
        InPrint(t, "sort") \/ InPrint(t, "emit") =>
            sets[Top(t).reg].lock # t


(***************************************************************************)
(* Further properties of the additions, under SpecStopwatch                *)
(***************************************************************************)
\* C17: recording a sample does not fail on overflow of total_time.  A
\* call of TimerSet::time that takes the lock of a TimerSet that is not
\* poisoned stores (total_time + delta) mod 2^64 and number_of_windows + 1
\* and does not panic, and a call of Stopwatch::timed does not panic and
\* counts its sample; both are stated where number_of_windows is below
\* 2^64 - 1, so that only total_time can overflow.
C17_OverflowWraps ==
    [][\A t \in Threads :
         /\ InTime(t, "lock") /\ threads'[t] # threads[t] =>
              LET f   == Top(t)
                  ts  == sets[f.reg]
                  old == IF f.name \in DOMAIN ts.timers
                         THEN ts.timers[f.name] ELSE Stopwatch_new
              IN  ~ts.poisoned /\ old.number_of_windows # U64Max =>
                      /\ threads'[t].panics = threads[t].panics
                      /\ sets'[f.reg].timers[f.name] =
                            [total_time |->
                                 BigMod(BigAdd(old.total_time, f.delta),
                                        TwoPow64),
                             number_of_windows |->
                                 BigAdd(old.number_of_windows, <<1>>)]
         /\ Stack(t) = << >> /\ threads'[t].stack = << >>
              /\ threads'[t].calls = threads[t].calls + 1
              /\ sw.number_of_windows # U64Max =>
                  /\ threads'[t].panics = threads[t].panics
                  /\ \/ sw' = Stopwatch_new
                     \/ sw'.number_of_windows
                          = BigAdd(sw.number_of_windows, <<1>>)]_vars


(***************************************************************************)
(* SpecRegistry: t1 uses the free functions time and clone on its default  *)
(* TimerSet, t2 calls time and print on a shared TimerSet that is new or   *)
(* has an entry close to the end of the range of number_of_windows         *)
(***************************************************************************)
InitRegistry ==
    /\ overflow_checks \in BOOLEAN
    /\ log_level = "info"
    /\ tsc = << >>
    /\ \E s \in StopwatchPasts :
           sets = [r \in RegIds |->
                     IF r = "shared"
                     THEN [TimerSet_new(CalibratedTps) EXCEPT
                             !.timers = IF s = Stopwatch_new THEN << >>
                                        ELSE [n \in {NameAlpha} |-> s]]
                     ELSE NoSet]
    /\ threads = IdleThreads
    /\ sw = Stopwatch_new
    /\ hist = NoHist
    /\ out = NoOut
    /\ calc = NoCall

NextRegistry ==
    \/ \E v \in Readings : FacadeTime("t1", NameAlpha, v, CalibratedTps)
    \/ Clone("t1", CalibratedTps)
    \/ \E v \in Readings : TimeStart("t2", "shared", NameAlpha, v)
    \/ \E t \in Threads, v \in Readings : TimeStop(t, v)
    \/ \E t \in Threads : TimeLock(t)
    \/ \E t \in Threads : TimeReturn(t)
    \/ \E order \in Orders(DOMAIN sets["shared"].timers) :
           PrintLock("t2", "shared", order)
    \/ PrintSort("t2")
    \/ PrintEmit("t2")
    \/ PrintReturn("t2")

SpecRegistry == InitRegistry /\ [][NextRegistry]_vars


\* C16: once the mutex of a TimerSet is poisoned (a thread has panicked
\* under its guard), every later call of time, print or clone on it fails
\* where it takes the lock, without reading or changing the map.  The
\* TimerSet stays as it is and no call on it completes or records; no
\* print gets to collect its pairs and no snapshot is made of it; a call
\* of time, whose work has run by then, panics where it takes the lock;
\* and a call of print or clone, which takes the lock first, either
\* panics or has got the lock.
C16_PoisonedLockFails ==
    [][\A r \in RegIds :
         sets[r].poisoned =>
           /\ sets'[r] = sets[r]
           /\ hist'.done[r] = hist.done[r]
           /\ ~sets["snap"].live /\ sets'["snap"].live => hist'.origin # r
           /\ \A t \in Threads :
                /\ \A i \in 1..Len(threads'[t].stack) :
                       threads'[t].stack[i].reg = r =>
                           /\ threads'[t].stack[i].op = "time"
                           /\ threads'[t].stack[i].pc # "ret"
                /\ InTime(t, "lock") /\ Top(t).reg = r
                     /\ threads'[t] # threads[t] =>
                       /\ threads'[t].stack = << >>
                       /\ threads'[t].panics = threads[t].panics + 1
                /\ Stack(t) = << >> /\ threads'[t].stack = << >>
                     /\ threads'[t].calls = threads[t].calls + 1
                     /\ sets'["snap"] = sets["snap"] =>
                       threads'[t].panics = threads[t].panics + 1]_vars

\* The shared TimerSet is poisoned by a panic of t2 under the guard, and
\* a later call of t2 on it has panicked too.
C16_Witness ==
    /\ sets["shared"].poisoned
    /\ sets["shared"].lock = "none"
    /\ threads["t2"].panics = 2

\* C19: a TimerSet changes only by the one step in which a call of time
\* that completes records under the lock.  In every step
\* ticks_per_second stays as it is and no entry leaves the map; a step
\* that changes the map is the step of a call of time that goes on to
\* return, it gives the entry of the call's name number_of_windows + 1
\* and total_time + delta together (modulo 2^64) and leaves every other
\* entry as it is, so print and clone change nothing; and where the lock
\* is free, no entry has number_of_windows = 0.
C19_OneAtomicChange ==
    [][\A r \in RegIds :
         sets[r].live =>
           /\ sets'[r].ticks_per_second = sets[r].ticks_per_second
           /\ DOMAIN sets[r].timers \subseteq DOMAIN sets'[r].timers
           /\ sets'[r].lock = "none" =>
                  \A n \in DOMAIN sets'[r].timers :
                      sets'[r].timers[n].number_of_windows # << >>
           /\ sets'[r].timers # sets[r].timers =>
                  \E t \in Threads :
                      /\ InTime(t, "lock")
                      /\ Top(t).reg = r
                      /\ threads'[t].stack # << >>
                      /\ threads'[t].stack[Len(threads'[t].stack)].pc = "ret"
                      /\ LET f   == Top(t)
                             old == IF f.name \in DOMAIN sets[r].timers
                                    THEN sets[r].timers[f.name]
                                    ELSE Stopwatch_new
                         IN  /\ sets'[r].timers[f.name] =
                                   [total_time |->
                                        BigMod(BigAdd(old.total_time, f.delta),
                                               TwoPow64),
                                    number_of_windows |->
                                        BigMod(BigAdd(old.number_of_windows,
                                                      <<1>>), TwoPow64)]
                             /\ \A n \in DOMAIN sets[r].timers :
                                    n # f.name =>
                                        sets'[r].timers[n]
                                          = sets[r].timers[n]]_vars

\* C20 as claimed: where the lock of a TimerSet is free, every entry of
\* its map has number_of_windows >= 1, and no line that print emits is a
\* "never ran" line.
C20_EntriesHaveRun ==
    /\ \A r \in RegIds :
           sets[r].lock = "none" =>
               \A n \in DOMAIN sets[r].timers :
                   sets[r].timers[n].number_of_windows # << >>
    /\ \A t \in Threads :
           \A i \in 1..Len(out[t]) : ~out[t][i].never_ran

\* C20 as amended: where the lock of a TimerSet is free, every entry of
\* its map whose number_of_windows has not wrapped around has
\* number_of_windows >= 1, and print emits a "never ran" line only for
\* an entry whose number_of_windows has wrapped around.
C20_UnwrappedEntriesHaveRun ==
    /\ \A r \in RegIds :
           sets[r].lock = "none" =>
               \A n \in DOMAIN sets[r].timers :
                   <<r, n>> \notin hist.wrapped =>
                       sets[r].timers[n].number_of_windows # << >>
    /\ \A t \in Threads :
           \A i \in 1..Len(out[t]) :
               out[t][i].never_ran =>
                   \E r \in RegIds : <<r, out[t][i].name>> \in hist.wrapped

\* A call of time has made the entry of a new map and returned, and a
\* print that found the entry has emitted its line, which is no "never
\* ran" line, and returned.
C20_Witness ==
    /\ hist.done["shared"][NameAlpha].n = 1
    /\ SharedTimers = [n \in {NameAlpha} |->
                          [total_time |-> <<3, 0>>,
                           number_of_windows |-> <<1>>]]
    /\ sets["shared"].lock = "none"
    /\ hist.print["t2"] = [keys |-> {NameAlpha}, state |-> "returned"]
    /\ Len(out["t2"]) = 1
    /\ ~out["t2"][1].never_ran

=============================================================================
